---- MODULE Spec2Model ----
(***************************************************************************)
(* Model of main.py: the audit of video files (verdict_for_file), the      *)
(* repair chain and the in-place / side-by-side replacement (process_one)  *)
(* and the batch loop (main).                                              *)
(*                                                                         *)
(* Paths are sequences of name tokens: "a_fixed.mkv" is <<"a", "_fixed",   *)
(* ".mkv">>, so that two paths are the same file exactly when their token  *)
(* sequences are equal.  All files live in one directory.                  *)
(* Durations and timestamps are integers in microseconds.                  *)
(***************************************************************************)
EXTENDS Integers, Sequences, FiniteSets, TLC

VARIABLES
    args,     \* parsed command line: try_fps, dry_run, inplace, prefer_mkv, tol, entry
    targets,  \* main's list of target paths (line 285)
    fs,       \* the directory: path -> file content
    i,        \* index of the current target in main's loop
    pc,       \* control point
    audit,    \* main's (verdict, reason) of the current target (line 290)
    po,       \* process_one's locals
    log,      \* external invocations and file operations done for the current file
    last,     \* outcome of the latest muxer/encoder invocation
    ret,      \* the tuple process_one returned
    rows,     \* main's report rows
    counts,   \* main's per-verdict counts
    fs0,      \* the directory as it was when the current file's processing began
    vq        \* a verdict_for_file call: its inputs and its result

vars == <<args, targets, fs, i, pc, audit, po, log, last, ret, rows, counts, fs0, vq>>

----------------------------------------------------------------------------
(* Bounds *)

\* longest list of --fps values given on the command line
MaxFps == 1

----------------------------------------------------------------------------
(* Optional values: Python's None *)

None == [some |-> FALSE, v |-> 0]
Some(x) == [some |-> TRUE, v |-> x]
NoneStr == "None"

Max(a, b) == IF a >= b THEN a ELSE b
Abs(a) == IF a >= 0 THEN a ELSE 0 - a

----------------------------------------------------------------------------
(* Configuration: lines 8-13 *)

RAW_EXTS == {".h264", ".hevc", ".dav"}

VIDEO_EXTS == {".mp4", ".mov", ".mkv", ".avi", ".ts", ".m2ts", ".flv", ".webm", ".3gp",
               ".mpg", ".mpeg", ".wmv", ".asf", ".m4v"} \cup RAW_EXTS

----------------------------------------------------------------------------
(* pathlib: suffix, stem, with_name, with_suffix; str.lower on a suffix *)

\* the name tokens that are extensions (begin with a dot)
ExtTokens == VIDEO_EXTS \cup {".H264", ".MP4", ".HEVC", ".bak", ".txt"}

\* Path.suffix: the last dotted component, none for a name that is only a dotted token
suffix(p) == IF Len(p) > 1 /\ p[Len(p)] \in ExtTokens THEN p[Len(p)] ELSE ""

\* Path.stem: the name without its suffix
stem(p) == IF suffix(p) = "" THEN p ELSE SubSeq(p, 1, Len(p) - 1)

\* str.lower() on an extension
lower(e) ==
    CASE e = ".H264" -> ".h264"
      [] e = ".HEVC" -> ".hevc"
      [] e = ".MP4"  -> ".mp4"
      [] OTHER       -> e

\* path.with_name(path.stem + infix + ext)
with_name(p, infix, ext) == stem(p) \o infix \o <<ext>>

\* path.with_suffix(ext)
with_suffix(p, ext) == stem(p) \o <<ext>>

\* path.with_suffix(path.suffix + ".bak")
bak_path(p) == IF suffix(p) = "" THEN p \o <<".bak">> ELSE stem(p) \o <<suffix(p), ".bak">>

\* str(fps) inside an f-string
FpsStr(f) == CASE f = 25 -> "25" [] f = 30 -> "30" [] OTHER -> "0"

----------------------------------------------------------------------------
(* Verdict: lines 94-138.  meta is get_meta's tuple, pts is                *)
(* get_packet_first_last_pts's pair, tol is the tolerance in percent.      *)

\* 0.001 s and 1e-6 s, in microseconds
MIN_META_DUR == 1000
EPS_DUR == 1

\* "mpeg" in (container or ""), over the format names the model uses
ContainerHasMpeg(container) == container \in {"mpegts", "mpeg", "mpegvideo"}

\* fpts is None or lpts is None or lpts <= fpts
PtsUnusable(pts) == ~pts.first.some \/ ~pts.last.some \/ pts.last.v <= pts.first.v

\* the comparison with the tolerance itself counted as divergent
DivergesOrEqual(pkt_dur, meta_dur, tol) ==
    Abs(pkt_dur - meta_dur) * 100 >= tol * Max(meta_dur, EPS_DUR)

\* divergence > diverge_tol, with divergence = abs(pkt - meta) / max(meta, 1e-6)
Diverges(pkt_dur, meta_dur, tol) == Abs(pkt_dur - meta_dur) * 100 > tol * Max(meta_dur, EPS_DUR)

\* line 124
BadCombo(container, vcodec) == ContainerHasMpeg(container) /\ vcodec \in {"h264", "hevc"}

\* line 100 with the raw test dropped for upper-case names
IsRawNoLower(path) == suffix(path) \in RAW_EXTS

\* lines 99-100: ext = path.suffix.lower(); ext in RAW_EXTS
IsRaw(path) == lower(suffix(path)) \in RAW_EXTS

\* verdict_for_file with an OK branch that reports no durations
verdict_for_file_bare_ok(path, tol, meta, pts) ==
    IF IsRaw(path)
    THEN [verdict |-> "WRAP", reason |-> <<"raw">>, extra |-> [ext |-> lower(suffix(path))]]
    ELSE IF ~meta.dur.some \/ meta.dur.v <= MIN_META_DUR
    THEN IF PtsUnusable(pts)
         THEN [verdict |-> "FIX", reason |-> <<"no_meta_no_pts">>,
               extra |-> [container |-> meta.container, vcodec |-> meta.vcodec]]
         ELSE [verdict |-> "FIX", reason |-> <<"no_meta_pkt_estimate">>,
               extra |-> [container |-> meta.container, vcodec |-> meta.vcodec,
                          pkt_duration |-> pts.last.v - pts.first.v]]
    ELSE IF PtsUnusable(pts)
    THEN [verdict |-> "FIX", reason |-> <<"meta_no_pts">>,
          extra |-> [container |-> meta.container, vcodec |-> meta.vcodec,
                     meta_duration |-> meta.dur.v]]
    ELSE LET pkt_dur == Max(0, pts.last.v - pts.first.v)
             div == Diverges(pkt_dur, meta.dur.v, tol)
             bad == BadCombo(meta.container, meta.vcodec)
             full == [container |-> meta.container, vcodec |-> meta.vcodec,
                      meta_duration |-> meta.dur.v, pkt_duration |-> pkt_dur]
         IN IF div \/ bad
            THEN [verdict |-> "FIX",
                  reason |-> (IF div THEN <<"divergence">> ELSE <<>>)
                             \o (IF bad THEN <<"bad_combo">> ELSE <<>>),
                  extra |-> full]
            ELSE [verdict |-> "OK", reason |-> <<"coherent">>,
                  extra |-> [container |-> meta.container, vcodec |-> meta.vcodec]]

verdict_for_file(path, tol, meta, pts) ==
    IF IsRaw(path)
    THEN [verdict |-> "WRAP", reason |-> <<"raw">>, extra |-> [ext |-> lower(suffix(path))]]
    ELSE IF ~meta.dur.some \/ meta.dur.v <= MIN_META_DUR
    THEN IF PtsUnusable(pts)
         THEN [verdict |-> "FIX", reason |-> <<"no_meta_no_pts">>,
               extra |-> [container |-> meta.container, vcodec |-> meta.vcodec]]
         ELSE [verdict |-> "FIX", reason |-> <<"no_meta_pkt_estimate">>,
               extra |-> [container |-> meta.container, vcodec |-> meta.vcodec,
                          pkt_duration |-> pts.last.v - pts.first.v]]
    ELSE IF PtsUnusable(pts)
    THEN [verdict |-> "FIX", reason |-> <<"meta_no_pts">>,
          extra |-> [container |-> meta.container, vcodec |-> meta.vcodec,
                     meta_duration |-> meta.dur.v]]
    ELSE LET pkt_dur == Max(0, pts.last.v - pts.first.v)
             div == Diverges(pkt_dur, meta.dur.v, tol)
             bad == BadCombo(meta.container, meta.vcodec)
             full == [container |-> meta.container, vcodec |-> meta.vcodec,
                      meta_duration |-> meta.dur.v, pkt_duration |-> pkt_dur]
         IN IF div \/ bad
            THEN [verdict |-> "FIX",
                  reason |-> (IF div THEN <<"divergence">> ELSE <<>>)
                             \o (IF bad THEN <<"bad_combo">> ELSE <<>>),
                  extra |-> full]
            ELSE [verdict |-> "OK", reason |-> <<"coherent">>, extra |-> full]

----------------------------------------------------------------------------
(* What the external inspector and packet lister report for a file.        *)

\* get_meta on a file ffprobe cannot read (line 36), and no packet timestamps
NullMeta == [dur |-> None, container |-> NoneStr, vcodec |-> NoneStr, start |-> None]
NullPts == [first |-> None, last |-> None]
NullMedia == [meta |-> NullMeta, pts |-> NullPts]

\* 10 s of metadata, packets spanning 10.1 s: coherent
CoherentMedia ==
    [meta |-> [dur |-> Some(10000000), container |-> "mov,mp4,m4a,3gp,3g2,mj2",
               vcodec |-> "h264", start |-> Some(0)],
     pts |-> [first |-> Some(0), last |-> Some(10100000)]]

\* 10 s of metadata, packets spanning 12.5 s
DivergentMedia ==
    [meta |-> [dur |-> Some(10000000), container |-> "mov,mp4,m4a,3gp,3g2,mj2",
               vcodec |-> "h264", start |-> Some(0)],
     pts |-> [first |-> Some(0), last |-> Some(12500000)]]

\* the media descriptions a target of the batch model may start with
MediaCases == {CoherentMedia, DivergentMedia, NullMedia}

\* get_meta / get_packet_first_last_pts on a path of the directory d
MediaOf(d, path) == IF path \in DOMAIN d THEN d[path].media ELSE NullMedia

\* verdict_for_file(path) as main and process_one call it
Diagnose(d, path, tol) == verdict_for_file(path, tol, MediaOf(d, path).meta, MediaOf(d, path).pts)

----------------------------------------------------------------------------
(* Files and the external muxer/encoder (ffmpeg -y ... src ... dst).       *)

NoPath == <<>>

\* a file as found before the run
Original(p, media) ==
    [origin |-> p, tag |-> "original", fps |-> 0, size |-> 1, good |-> TRUE, media |-> media]

\* a file written by an invocation of the tool: good iff the tool exited 0 having written data
Output(src, tag, fps, size, good) ==
    [origin |-> src, tag |-> tag, fps |-> fps, size |-> size, good |-> good,
     media |-> IF good THEN CoherentMedia ELSE NullMedia]

\* what one invocation may do: its exit status and what it leaves at the destination
Outcomes ==
    { [rc |-> 1, eff |-> "untouched"],   \* failed before writing anything
      [rc |-> 1, eff |-> "data"],        \* failed, a partial file left behind
      [rc |-> 0, eff |-> "untouched"],   \* exit 0, no file produced
      [rc |-> 0, eff |-> "empty"],       \* exit 0, an empty file
      [rc |-> 0, eff |-> "data"] }       \* exit 0, a complete file

\* a missing input makes the tool fail before it opens its output; an exit status 0
\* without any output leaves no file at the destination
OutcomePossible(d, src, dst, o) ==
    /\ src \notin DOMAIN d => (o.rc = 1 /\ o.eff = "untouched")
    /\ (o.rc = 0 /\ o.eff = "untouched") => dst \notin DOMAIN d

\* the directory after the invocation
RunTool(d, src, dst, tag, fps, o) ==
    IF o.eff = "untouched" THEN d
    ELSE [q \in DOMAIN d \cup {dst} |->
            IF q = dst
            THEN Output(src, tag, fps, IF o.eff = "empty" THEN 0 ELSE 1, o.rc = 0 /\ o.eff = "data")
            ELSE d[q]]

\* a strategy that trusts the exit status alone
StrategyOkExitOnly(d, dst, rc) == rc = 0

\* lines 148, 154, 160, 176: returncode == 0 and dst.exists() and dst.stat().st_size > 0
StrategyOk(d, dst, rc) == rc = 0 /\ dst \in DOMAIN d /\ d[dst].size > 0

\* Path.unlink inside try/except (lines 203-204): a missing file is ignored
Unlink(d, p) == [q \in DOMAIN d \ {p} |-> d[q]]

\* a rename that leaves the source name in place (a copy)
RenameKeepsSource(d, from, to) ==
    [q \in DOMAIN d \cup {to} |-> IF q = to THEN d[from] ELSE d[q]]

\* Path.rename (POSIX): the destination is replaced
Rename(d, from, to) ==
    [q \in (DOMAIN d \ {from}) \cup {to} |-> IF q = to THEN d[from] ELSE d[q]]

----------------------------------------------------------------------------
(* process_one's derived names: lines 185, 197-198, 202, 206, 213-214,     *)
(* 226-227, 240-241, 249                                                   *)

ExtOut(prefer_mkv) == IF prefer_mkv THEN ".mkv" ELSE ".mp4"

WrapDst(path, fps, inplace, ext_out) ==
    IF inplace THEN path ELSE with_name(path, <<"_wrapped", FpsStr(fps)>>, ext_out)

WrapTmp(path, fps, inplace, ext_out) ==
    IF ~inplace THEN WrapDst(path, fps, inplace, ext_out)
    ELSE with_name(path, <<"_wrapped_tmp">>, ext_out)

\* the remux written over the file being repaired
MkvTmpOverOriginal(path, inplace) == path

MkvTmp(path, inplace) ==
    IF ~inplace THEN with_name(path, <<"_fixed">>, ".mkv")
    ELSE with_name(path, <<"_fixed_tmp">>, ".mkv")

\* the faststart copy written over the file being repaired
Mp4TmpOverOriginal(path, inplace) == path

Mp4Tmp(path, inplace) ==
    IF ~inplace THEN with_name(path, <<"_fixed">>, ".mp4")
    ELSE with_name(path, <<"_fixed_tmp">>, ".mp4")

\* the re-encode writing straight over its input
ReencTmpOverOriginal(path, inplace, ext_out) == path

ReencTmp(path, inplace, ext_out) ==
    IF ~inplace THEN with_name(path, <<"_reenc">>, ext_out)
    ELSE with_name(path, <<"_reenc_tmp">>, ext_out)

\* the name the temporary result takes in place
WrapFinal(path, ext_out) == with_suffix(path, ext_out)
RemuxFinal(path) == with_suffix(path, ".mkv")
FaststartFinal(path) == path
ReencFinal(path, ext_out) == with_suffix(path, ext_out)

\* the action strings, as tokens
Inplace(inplace) == IF inplace THEN <<" inplace">> ELSE <<>>
\* the action string without the mode
WrapActionNoMode(fps, inplace) == <<"wrap(", FpsStr(fps), ")">>
WrapAction(fps, inplace) == <<"wrap(", FpsStr(fps), ")">> \o Inplace(inplace)
RemuxAction(inplace) == <<"remux_mkv">> \o Inplace(inplace)
FaststartAction(inplace) == <<"mp4_faststart_timescale">> \o Inplace(inplace)
ReencAction(hint, inplace) ==
    <<"reencode_cfr(", IF hint = 0 THEN "auto" ELSE FpsStr(hint), ")">> \o Inplace(inplace)

\* line 239: [None, *try_fps]; None is 0 here (the code tests "if fps_in")
ReencHints(try_fps) == <<0>> \o try_fps

\* the chain with the re-encode tried before the faststart copy
NextFixStageSwapped(stage) == IF stage = "remux" THEN "reenc" ELSE "faststart"

\* lines 215-239: the strategy tried after a failed one
NextFixStage(stage) == IF stage = "remux" THEN "faststart" ELSE "reenc"

----------------------------------------------------------------------------
(* The runs the model explores: command lines and directories.             *)

FpsValues == {25, 30}

\* the --fps values given: none (<<>>), or up to MaxFps of them, repeats allowed
FpsArgs == {<<>>} \cup UNION {[1..n -> FpsValues] : n \in 1..MaxFps}

\* line 283: args.fps if args.fps else [25, 30]
TryFps(fps_arg) == IF fps_arg = <<>> THEN <<25, 30>> ELSE fps_arg

\* diverge_tol's default, 0.20, in percent (lines 94 and 260)
DEFAULT_TOL == 20

\* --tol in percent
Tols == {0, DEFAULT_TOL}

\* process_one diagnosing with the default tolerance whatever --tol says
BoundTolDefault(a) == DEFAULT_TOL

\* the tolerance the global name verdict_for_file applies: args.tol once main has
\* rebound it (lines 277-281), the default when process_one is called on its own
BoundTol(a) == IF a.entry = "main" THEN a.tol ELSE DEFAULT_TOL

A_MP4 == <<"a", ".mp4">>
A_MKV == <<"a", ".mkv">>
A_H264 == <<"a", ".h264">>
A_HEVC == <<"a", ".hevc">>

\* the directories the runs start from
FileSets ==
    { {A_MP4}, {A_MP4, bak_path(A_MP4)}, {A_H264}, {A_H264, bak_path(A_H264)},
      {A_MP4, A_MKV}, {A_H264, A_HEVC}, {A_H264, A_MP4} }

\* what a file of the initial directory holds: a.mp4 ranges over the media cases,
\* the other container files start coherent
InitContents(p) ==
    IF IsRaw(p) \/ suffix(p) = ".bak"
    THEN {Original(p, NullMedia)}
    ELSE IF p = A_MP4 THEN {Original(p, m) : m \in MediaCases}
    ELSE {Original(p, CoherentMedia)}

DirsOver(FS) ==
    {d \in [FS -> UNION {InitContents(p) : p \in FS}] : \A p \in FS : d[p] \in InitContents(p)}

InitialDirs == UNION {DirsOver(FS) : FS \in FileSets}

Perms(S) == {s \in [1..Cardinality(S) -> S] : \A x, y \in 1..Cardinality(S) : s[x] = s[y] => x = y}

\* line 285: the root itself when it is a file, else the video files under it, in any order
Targets(d, root) ==
    IF root \in DOMAIN d THEN {<<root>>}
    ELSE Perms({p \in DOMAIN d : lower(suffix(p)) \in VIDEO_EXTS})

NoVerdict == [verdict |-> "", reason |-> <<>>]
NoPo == [path |-> NoPath, verdict |-> "", k |-> 0, tmp |-> NoPath, final |-> NoPath, action |-> <<>>]
NoLast == [op |-> "", rc |-> 0, dst |-> NoPath, ok |-> FALSE]
NoRet == [verdict |-> "", action |-> <<>>, outpath |-> NoPath, err |-> NoneStr]
NoQuery == [path |-> NoPath, tol |-> 0, media |-> NullMedia, done |-> FALSE,
            res |-> [verdict |-> "", reason |-> <<>>, extra |-> [ext |-> ""]]]

\* the tolerances tried on a directory: every one on a single file, the default otherwise
TolsFor(d) == IF Cardinality(DOMAIN d) = 1 THEN Tols ELSE {DEFAULT_TOL}

\* entry "main": the command line run; entry "process_one": process_one called on one file
Init ==
    /\ \E fps_arg \in FpsArgs, dry \in BOOLEAN, inpl \in BOOLEAN, mkv \in BOOLEAN,
          tol \in Tols, entry \in {"main", "process_one"} :
         args = [try_fps |-> TryFps(fps_arg), dry_run |-> dry, inplace |-> inpl,
                 prefer_mkv |-> mkv, tol |-> tol, entry |-> entry]
    /\ fs \in InitialDirs
    /\ args.tol \in TolsFor(fs)
    /\ \E root \in DOMAIN fs \cup {<<"dir">>} :
         /\ args.entry = "process_one" => root \in DOMAIN fs
         /\ targets \in Targets(fs, root)
    /\ i = 1
    /\ pc = IF args.entry = "main" THEN "audit" ELSE "po_entry"
    /\ audit = NoVerdict
    /\ po = IF args.entry = "main" THEN NoPo ELSE [NoPo EXCEPT !.path = targets[1]]
    /\ log = <<>>
    /\ last = NoLast
    /\ ret = NoRet
    /\ rows = <<>>
    /\ counts = [OK |-> 0, WRAP |-> 0, FIX |-> 0]
    /\ fs0 = fs
    /\ vq = NoQuery

----------------------------------------------------------------------------
(* main's loop: lines 287-304                                              *)

\* line 295
NeedsRepair(verdict, dry_run) == verdict \in {"WRAP", "FIX"} /\ ~dry_run

Row(p, a, action, outpath, err) ==
    [path |-> p, verdict |-> a.verdict, reason |-> a.reason, action |-> action,
     outpath |-> outpath, err |-> IF err = NoneStr THEN "" ELSE err]

\* a loop that gives up at the first failed repair
AfterRowStopOnFailure ==
    IF i + 1 > Len(targets) \/ ret.action \in {<<"wrap_failed">>, <<"reencode_failed">>}
    THEN "report" ELSE "audit"

\* the loop's next position after the row of target i is appended
AfterRow == IF i + 1 > Len(targets) THEN "report" ELSE "audit"

\* lines 290-296 and, when process_one is not called, line 304
Audit ==
    /\ pc = "audit"
    /\ LET v == Diagnose(fs, targets[i], args.tol)
           a == [verdict |-> v.verdict, reason |-> v.reason]
       IN /\ audit' = a
          /\ counts' = [counts EXCEPT ![v.verdict] = @ + 1]
          /\ fs0' = fs
          /\ log' = <<>>
          /\ IF NeedsRepair(v.verdict, args.dry_run)
             THEN /\ pc' = "po_entry"
                  /\ po' = [NoPo EXCEPT !.path = targets[i]]
                  /\ UNCHANGED <<rows, i>>
             ELSE /\ rows' = Append(rows, Row(targets[i], a, <<"none">>, NoPath, NoneStr))
                  /\ i' = i + 1
                  /\ pc' = AfterRow
                  /\ po' = NoPo
    /\ UNCHANGED <<args, targets, fs, last, ret, vq>>

\* lines 296-304: process_one has returned to main
AfterProcessOne ==
    /\ pc = "po_return"
    /\ args.entry = "main"
    /\ rows' = Append(rows, Row(targets[i], audit, ret.action, ret.outpath, ret.err))
    /\ i' = i + 1
    /\ pc' = AfterRow
    /\ last' = NoLast
    /\ UNCHANGED <<args, targets, fs, audit, po, log, ret, counts, fs0, vq>>

\* lines 306-314: the report and sys.exit(0); the CSV file itself is not in fs
Finish ==
    /\ pc = "report"
    /\ pc' = "exit0"
    /\ UNCHANGED <<args, targets, fs, i, audit, po, log, last, ret, rows, counts, fs0, vq>>

----------------------------------------------------------------------------
(* process_one: lines 179-253                                              *)

\* return verdict, action, outpath, err
Return(action, outpath, err) ==
    /\ ret' = [verdict |-> po.verdict, action |-> action, outpath |-> outpath, err |-> err]
    /\ pc' = "po_return"
    /\ last' = NoLast

LogCall(op, fps, ok) == log' = Append(log, [op |-> op, fps |-> fps, ok |-> ok])

\* process_one without its dry-run test
EntryBranchNoDryRun(verdict, dry_run) ==
    IF verdict = "OK" THEN "none"
    ELSE IF verdict = "WRAP" THEN "wrap"
    ELSE "remux"

\* lines 187-194 and 211: what process_one does with the verdict
EntryBranch(verdict, dry_run) ==
    IF verdict = "OK" THEN "none"
    ELSE IF dry_run THEN "planned"
    ELSE IF verdict = "WRAP" THEN "wrap"
    ELSE "remux"

\* lines 183-194 and 211: diagnose, return for OK or a dry run, else enter a chain
ProcessOneEntry ==
    /\ pc = "po_entry"
    /\ LET v == Diagnose(fs, po.path, BoundTol(args))
           b == EntryBranch(v.verdict, args.dry_run)
       IN IF b \in {"none", "planned"}
          THEN /\ ret' = [verdict |-> v.verdict, action |-> <<b>>, outpath |-> NoPath,
                          err |-> NoneStr]
               /\ pc' = "po_return"
               /\ po' = [po EXCEPT !.verdict = v.verdict]
          ELSE /\ pc' = b
               /\ po' = [po EXCEPT !.verdict = v.verdict, !.k = 1]
               /\ UNCHANGED ret
    /\ UNCHANGED <<args, targets, fs, i, audit, log, last, rows, counts, fs0, vq>>

\* after a successful strategy: promote in place (lines 201-207) or return the output (208)
Succeed(tmp, final, action) ==
    IF args.inplace
    THEN /\ pc' = "unlink_bak"
         /\ po' = [po EXCEPT !.tmp = tmp, !.final = final, !.action = action]
         /\ UNCHANGED ret
    ELSE /\ ret' = [verdict |-> po.verdict, action |-> action, outpath |-> tmp, err |-> NoneStr]
         /\ pc' = "po_return"
         /\ UNCHANGED po

\* lines 196-208: one candidate frame rate of the WRAP loop
WrapAttempt ==
    /\ pc = "wrap"
    /\ po.k <= Len(args.try_fps)
    /\ LET fps == args.try_fps[po.k]
           ext_out == ExtOut(args.prefer_mkv)
           tmp == WrapTmp(po.path, fps, args.inplace, ext_out)
       IN \E o \in Outcomes :
            /\ OutcomePossible(fs, po.path, tmp, o)
            /\ fs' = RunTool(fs, po.path, tmp, "wrap", fps, o)
            /\ LET ok == StrategyOk(fs', tmp, o.rc)
               IN /\ last' = [op |-> "wrap", rc |-> o.rc, dst |-> tmp, ok |-> ok]
                  /\ LogCall("wrap", fps, ok)
                  /\ IF ok
                     THEN Succeed(tmp, WrapFinal(po.path, ext_out), WrapAction(fps, args.inplace))
                     ELSE /\ po' = [po EXCEPT !.k = @ + 1]
                          /\ UNCHANGED <<pc, ret>>
    /\ UNCHANGED <<args, targets, i, audit, rows, counts, fs0, vq>>

\* line 209: every candidate failed
WrapExhausted ==
    /\ pc = "wrap"
    /\ po.k > Len(args.try_fps)
    /\ Return(<<"wrap_failed">>, NoPath, "Falha ao embrulhar RAW com FPS tentados.")
    /\ UNCHANGED <<args, targets, fs, i, audit, po, log, rows, counts, fs0, vq>>

\* lines 213-223: remux to MKV
Remux ==
    /\ pc = "remux"
    /\ LET tmp == MkvTmp(po.path, args.inplace)
       IN \E o \in Outcomes :
            /\ OutcomePossible(fs, po.path, tmp, o)
            /\ fs' = RunTool(fs, po.path, tmp, "remux", 0, o)
            /\ LET ok == StrategyOk(fs', tmp, o.rc)
               IN /\ last' = [op |-> "remux", rc |-> o.rc, dst |-> tmp, ok |-> ok]
                  /\ LogCall("remux", 0, ok)
                  /\ IF ok
                     THEN Succeed(tmp, RemuxFinal(po.path), RemuxAction(args.inplace))
                     ELSE /\ pc' = NextFixStage("remux")
                          /\ UNCHANGED <<po, ret>>
    /\ UNCHANGED <<args, targets, i, audit, rows, counts, fs0, vq>>

\* lines 226-236: MP4 with faststart and a fixed timescale
Faststart ==
    /\ pc = "faststart"
    /\ LET tmp == Mp4Tmp(po.path, args.inplace)
       IN \E o \in Outcomes :
            /\ OutcomePossible(fs, po.path, tmp, o)
            /\ fs' = RunTool(fs, po.path, tmp, "faststart", 0, o)
            /\ LET ok == StrategyOk(fs', tmp, o.rc)
               IN /\ last' = [op |-> "faststart", rc |-> o.rc, dst |-> tmp, ok |-> ok]
                  /\ LogCall("faststart", 0, ok)
                  /\ IF ok
                     THEN Succeed(tmp, FaststartFinal(po.path), FaststartAction(args.inplace))
                     ELSE /\ pc' = NextFixStage("faststart")
                          /\ UNCHANGED <<po, ret>>
    /\ UNCHANGED <<args, targets, i, audit, rows, counts, fs0, vq>>

\* lines 239-251: one frame-rate hint of the CFR re-encode loop
ReencAttempt ==
    /\ pc = "reenc"
    /\ po.k <= Len(ReencHints(args.try_fps))
    /\ LET hint == ReencHints(args.try_fps)[po.k]
           ext_out == ExtOut(args.prefer_mkv)
           tmp == ReencTmp(po.path, args.inplace, ext_out)
       IN \E o \in Outcomes :
            /\ OutcomePossible(fs, po.path, tmp, o)
            /\ fs' = RunTool(fs, po.path, tmp, "reencode", hint, o)
            /\ LET ok == StrategyOk(fs', tmp, o.rc)
               IN /\ last' = [op |-> "reencode", rc |-> o.rc, dst |-> tmp, ok |-> ok]
                  /\ LogCall("reencode", hint, ok)
                  /\ IF ok
                     THEN Succeed(tmp, ReencFinal(po.path, ext_out), ReencAction(hint, args.inplace))
                     ELSE /\ po' = [po EXCEPT !.k = @ + 1]
                          /\ UNCHANGED <<pc, ret>>
    /\ UNCHANGED <<args, targets, i, audit, rows, counts, fs0, vq>>

\* line 253: the whole chain failed
ReencExhausted ==
    /\ pc = "reenc"
    /\ po.k > Len(ReencHints(args.try_fps))
    /\ Return(<<"reencode_failed">>, NoPath, "Re-encode CFR falhou com todos os FPS.")
    /\ UNCHANGED <<args, targets, fs, i, audit, po, log, rows, counts, fs0, vq>>

----------------------------------------------------------------------------
(* In-place replacement: lines 202-207, 217-222, 230-235, 245-250          *)

\* the replacement with the result renamed before the original is moved away
PromoteStepAfterTmpFirst(step) ==
    CASE step = "unlink_bak" -> "rename_tmp"
      [] step = "rename_tmp" -> "rename_bak"
      [] OTHER -> "return"

\* the order of the three statements: bak.unlink(), path.rename(bak), tmp.rename(final)
PromoteStepAfter(step) ==
    CASE step = "unlink_bak" -> "rename_bak"
      [] step = "rename_bak" -> "rename_tmp"
      [] OTHER -> "return"

\* the step's successor, returning from process_one after the last one
Advance(step) ==
    IF PromoteStepAfter(step) = "return"
    THEN /\ ret' = [verdict |-> po.verdict, action |-> po.action, outpath |-> po.final,
                    err |-> NoneStr]
         /\ pc' = "po_return"
         /\ last' = NoLast
    ELSE /\ pc' = PromoteStepAfter(step)
         /\ UNCHANGED <<ret, last>>

\* try: bak.unlink() except: pass
UnlinkBak ==
    /\ pc = "unlink_bak"
    /\ fs' = Unlink(fs, bak_path(po.path))
    /\ LogCall("unlink_bak", 0, bak_path(po.path) \in DOMAIN fs)
    /\ Advance("unlink_bak")
    /\ UNCHANGED <<args, targets, i, audit, po, rows, counts, fs0, vq>>

\* path.rename(bak); a missing path raises and ends the run
RenameBak ==
    /\ pc = "rename_bak"
    /\ IF po.path \in DOMAIN fs
       THEN /\ fs' = Rename(fs, po.path, bak_path(po.path))
            /\ LogCall("rename_bak", 0, TRUE)
            /\ Advance("rename_bak")
       ELSE /\ pc' = "crashed"
            /\ LogCall("rename_bak", 0, FALSE)
            /\ UNCHANGED <<fs, ret, last>>
    /\ UNCHANGED <<args, targets, i, audit, po, rows, counts, fs0, vq>>

\* tmp.rename(final); a missing tmp raises and ends the run
RenameTmp ==
    /\ pc = "rename_tmp"
    /\ IF po.tmp \in DOMAIN fs
       THEN /\ fs' = Rename(fs, po.tmp, po.final)
            /\ LogCall("rename_tmp", 0, TRUE)
            /\ Advance("rename_tmp")
       ELSE /\ pc' = "crashed"
            /\ LogCall("rename_tmp", 0, FALSE)
            /\ UNCHANGED <<fs, ret, last>>
    /\ UNCHANGED <<args, targets, i, audit, po, rows, counts, fs0, vq>>

\* process_one called directly has returned to its caller
ReturnToCaller ==
    /\ pc = "po_return"
    /\ args.entry = "process_one"
    /\ pc' = "returned"
    /\ last' = NoLast
    /\ UNCHANGED <<args, targets, fs, i, audit, po, log, ret, rows, counts, fs0, vq>>

Next ==
    \/ Audit
    \/ AfterProcessOne
    \/ Finish
    \/ ProcessOneEntry
    \/ WrapAttempt
    \/ WrapExhausted
    \/ Remux
    \/ Faststart
    \/ ReencAttempt
    \/ ReencExhausted
    \/ UnlinkBak
    \/ RenameBak
    \/ RenameTmp
    \/ ReturnToCaller

Spec == Init /\ [][Next]_vars

\* the runs with the default candidate frame rates (no --fps given)
DefaultFpsInit == Init /\ args.try_fps = TryFps(<<>>)

\* the interpreter keeps running the program until it exits
FairSpec == DefaultFpsInit /\ [][Next]_vars /\ WF_vars(Next)

----------------------------------------------------------------------------
(* verdict_for_file on its own: every input of a bounded grid              *)

VDurs == {None, Some(0), Some(1000), Some(1001), Some(10000000)}
VContainers == {NoneStr, "", "mov,mp4,m4a,3gp,3g2,mj2", "mpegts"}
VCodecs == {NoneStr, "h264", "hevc", "mpeg4"}
VFirsts == {None, Some(0), Some(500000)}
VLasts == {None, Some(0), Some(10000000), Some(12000000), Some(12000001), Some(12500000)}

VMedias ==
    {[meta |-> [dur |-> d, container |-> c, vcodec |-> k, start |-> None],
      pts |-> [first |-> f, last |-> l]] :
        d \in VDurs, c \in VContainers, k \in VCodecs, f \in VFirsts, l \in VLasts}

VPaths ==
    {<<"a", e>> : e \in {".h264", ".hevc", ".dav", ".H264", ".HEVC", ".mp4", ".MP4", ".mkv", ".ts"}}
    \cup {<<"a">>, <<".h264">>, <<"a", ".h264", ".bak">>, <<"a", ".mp4", ".hevc">>}

VInit ==
    /\ vq \in [path : VPaths, tol : Tols, media : VMedias, done : {FALSE}, res : {NoQuery.res}]
    /\ args = [try_fps |-> <<25, 30>>, dry_run |-> TRUE, inplace |-> FALSE,
               prefer_mkv |-> FALSE, tol |-> 20, entry |-> "verdict_for_file"]
    /\ targets = <<>>
    /\ fs = <<>>
    /\ i = 1
    /\ pc = "verdict"
    /\ audit = NoVerdict
    /\ po = NoPo
    /\ log = <<>>
    /\ last = NoLast
    /\ ret = NoRet
    /\ rows = <<>>
    /\ counts = [OK |-> 0, WRAP |-> 0, FIX |-> 0]
    /\ fs0 = <<>>

\* one call of verdict_for_file(path, diverge_tol)
VerdictCall ==
    /\ pc = "verdict"
    /\ ~vq.done
    /\ vq' = [vq EXCEPT !.done = TRUE,
                        !.res = verdict_for_file(vq.path, vq.tol, vq.media.meta, vq.media.pts)]
    /\ pc' = "verdict_done"
    /\ UNCHANGED <<args, targets, fs, i, audit, po, log, last, ret, rows, counts, fs0>>

VNext == VerdictCall

SpecVerdict == VInit /\ [][VNext]_vars

----------------------------------------------------------------------------
(* Diagnosis from what the external tools print: ffprobe_json, get_meta,   *)
(* get_packet_first_last_pts and verdict_for_file, lines 23-138.           *)

MaxStreams == 2
MaxLines == 3

SeqsUpTo(S, n) == UNION {[1..k -> S] : k \in 0..n}

\* a JSON field or an output line: missing (or null), text float() rejects, or a number
Absent == [kind |-> "absent", v |-> 0]
Text == [kind |-> "text", v |-> 0]
Num(x) == [kind |-> "num", v |-> x]

\* float(x) inside try/except: lines 40-44, 47-50, 59-64, 84-87
to_float(x) == IF x.kind = "num" THEN Some(x.v) ELSE None

PFormats ==
    [duration : {Absent, Text, Num(0), Num(10000000)},
     format_name : {"", "mpegts", "mov,mp4,m4a,3gp,3g2,mj2"},
     start_time : {Absent, Num(0)}]

PStreamKinds == {<<"video", "h264">>, <<"video", "mpeg4">>, <<"audio", "aac">>}
PStreamDurs == {Absent, Text, Num(0), Num(5000000), Num(10000000)}
PStreams ==
    {[codec_type |-> k[1], codec_name |-> k[2], duration |-> d] :
        k \in PStreamKinds, d \in PStreamDurs}

NoFormat == [duration |-> Absent, format_name |-> "", start_time |-> Absent]
NoData == [kind |-> "none", format |-> NoFormat, streams |-> <<>>]

\* what ffprobe prints: nothing json.loads accepts, nothing at all, or a document
POutputs ==
    {[kind |-> "garbage", format |-> NoFormat, streams |-> <<>>],
     [kind |-> "empty", format |-> NoFormat, streams |-> <<>>]}
    \cup [kind : {"doc"}, format : PFormats, streams : SeqsUpTo(PStreams, MaxStreams)]

NoProc == [started |-> TRUE, rc |-> 0, out |-> NoData]

\* subprocess.run of ffprobe (line 26): it cannot be started, or it exits with an output
PProcs ==
    {[started |-> FALSE, rc |-> 0, out |-> NoData]}
    \cup [started : {TRUE}, rc : {0, 1}, out : POutputs]

PLines == {Absent, Text, Num(0), Num(5000000), Num(10000000)}
NoSampler == [started |-> TRUE, lines |-> <<>>]

\* subprocess.Popen of the packet lister (lines 74-78) and the lines it prints
PSamplers ==
    {[started |-> FALSE, lines |-> <<>>]}
    \cup [started : {TRUE}, lines : SeqsUpTo(PLines, MaxLines)]

\* the output parsed whatever the exit status
ffprobe_json_ignores_exit(p) ==
    IF p.out.kind = "garbage" THEN NoData
    ELSE p.out

\* lines 27-29
ffprobe_json(p) ==
    IF p.rc # 0 THEN NoData
    ELSE IF p.out.kind = "garbage" THEN NoData
    ELSE p.out

\* one pass of the loop at lines 53-64; acc is (vcodec, dur)
stream_step(acc, st) ==
    [vcodec |-> IF st.codec_type = "video" THEN st.codec_name ELSE acc.vcodec,
     dur |-> IF ~acc.dur.some /\ st.duration.kind = "num" /\ st.duration.v > 0
             THEN (IF ~acc.dur.some THEN Some(st.duration.v)
                   ELSE Some(Max(acc.dur.v, st.duration.v)))
             ELSE acc.dur]

RECURSIVE stream_loop(_, _)
stream_loop(acc, streams) ==
    IF streams = <<>> THEN acc
    ELSE stream_loop(stream_step(acc, Head(streams)), Tail(streams))

\* lines 35-65
get_meta(p) ==
    LET data == ffprobe_json(p)
    IN IF data.kind \in {"none", "empty"} THEN NullMeta
       ELSE LET r == stream_loop([vcodec |-> NoneStr, dur |-> to_float(data.format.duration)],
                                 data.streams)
            IN [dur |-> r.dur, container |-> data.format.format_name,
                vcodec |-> r.vcodec, start |-> to_float(data.format.start_time)]

\* an ordering check between the two timestamps: last only ever moves forward
pts_step_ordered(acc, line) ==
    IF line.kind # "num" THEN acc
    ELSE [first |-> IF acc.first.some THEN acc.first ELSE Some(line.v),
          last |-> IF acc.last.some /\ acc.last.v > line.v THEN acc.last ELSE Some(line.v)]

\* one pass of the loop at lines 81-89
pts_step(acc, line) ==
    IF line.kind # "num" THEN acc
    ELSE [first |-> IF acc.first.some THEN acc.first ELSE Some(line.v),
          last |-> Some(line.v)]

\* the loop at lines 79-89
RECURSIVE pts_loop(_, _)
pts_loop(acc, lines) ==
    IF lines = <<>> THEN acc
    ELSE pts_loop(pts_step(acc, Head(lines)), Tail(lines))

\* lines 74-91
get_packet_first_last_pts(s) ==
    IF ~s.started THEN NullPts ELSE pts_loop(NullPts, s.lines)

PPaths == {A_MP4, A_H264}

NoPQuery ==
    [path |-> NoPath, tol |-> 0, p |-> NoProc, s |-> NoSampler, meta |-> NullMeta,
     pts |-> NullPts, res |-> NoQuery.res, raised |-> FALSE]

PInit ==
    /\ \E path \in PPaths, tol \in Tols : vq = [NoPQuery EXCEPT !.path = path, !.tol = tol]
    /\ args = [try_fps |-> <<25, 30>>, dry_run |-> TRUE, inplace |-> FALSE,
               prefer_mkv |-> FALSE, tol |-> 20, entry |-> "verdict_for_file"]
    /\ targets = <<>>
    /\ fs = <<>>
    /\ i = 1
    /\ pc = "vf_entry"
    /\ audit = NoVerdict
    /\ po = NoPo
    /\ log = <<>>
    /\ last = NoLast
    /\ ret = NoRet
    /\ rows = <<>>
    /\ counts = [OK |-> 0, WRAP |-> 0, FIX |-> 0]
    /\ fs0 = <<>>

PUnchanged == UNCHANGED <<args, targets, fs, i, audit, po, log, last, ret, rows, counts, fs0>>

\* lines 99-101: a raw extension returns before any tool runs
ExtCheck ==
    /\ pc = "vf_entry"
    /\ IF IsRaw(vq.path)
       THEN /\ vq' = [vq EXCEPT !.res = verdict_for_file(vq.path, vq.tol, NullMeta, NullPts)]
            /\ pc' = "vf_done"
       ELSE /\ pc' = "vf_get_meta"
            /\ UNCHANGED vq
    /\ PUnchanged

\* line 103: get_meta; run (line 26) is outside any try, so a tool that cannot be
\* started raises out of the call
GetMeta ==
    /\ pc = "vf_get_meta"
    /\ \E p \in PProcs :
         IF ~p.started
         THEN /\ vq' = [vq EXCEPT !.p = p, !.raised = TRUE]
              /\ pc' = "vf_raised"
         ELSE /\ vq' = [vq EXCEPT !.p = p, !.meta = get_meta(p)]
              /\ pc' = "vf_meta_done"
    /\ PUnchanged

\* line 65: get_meta returns its four values and its frame is gone
MetaReturned ==
    /\ pc = "vf_meta_done"
    /\ vq' = [vq EXCEPT !.p = NoProc]
    /\ pc' = "vf_get_pts"
    /\ PUnchanged

\* line 104: get_packet_first_last_pts
GetPts ==
    /\ pc = "vf_get_pts"
    /\ \E s \in PSamplers :
         vq' = [vq EXCEPT !.s = s, !.pts = get_packet_first_last_pts(s)]
    /\ pc' = "vf_classify"
    /\ PUnchanged

\* lines 106-138
Classify ==
    /\ pc = "vf_classify"
    /\ vq' = [vq EXCEPT !.s = NoSampler,
                        !.res = verdict_for_file(vq.path, vq.tol, vq.meta, vq.pts)]
    /\ pc' = "vf_done"
    /\ PUnchanged

PNext == ExtCheck \/ GetMeta \/ MetaReturned \/ GetPts \/ Classify

SpecProbe == PInit /\ [][PNext]_vars

----------------------------------------------------------------------------
(* Properties.  Helpers read the log of the file being processed.          *)

StrategyOps == {"wrap", "remux", "faststart", "reencode"}

\* the muxer/encoder invocations made for the current file, in order
Calls == SelectSeq(log, LAMBDA e : e.op \in StrategyOps)

\* the file operations made for the current file, in order
FileOps == SelectSeq(log, LAMBDA e : e.op \notin StrategyOps)

CountOp(op) == Len(SelectSeq(log, LAMBDA e : e.op = op))

AllFailed(c) == \A j \in 1..Len(c) : ~c[j].ok

\* process_one has returned for the current file
Returned == pc \in {"po_return", "returned"}

\* a name carrying one of the temporary infixes
IsTmpName(q) == \E j \in 1..Len(q) : q[j] \in {"_wrapped_tmp", "_fixed_tmp", "_reenc_tmp"}

\* path q is as it was when the processing of the current file began
Untouched(q) == (q \in DOMAIN fs <=> q \in DOMAIN fs0) /\ (q \in DOMAIN fs => fs[q] = fs0[q])

\* the FIX chain in the claimed order: remux, faststart, re-encode without
\* hint, re-encode per candidate frame rate
ClaimedFixChain ==
    <<[op |-> "remux", fps |-> 0], [op |-> "faststart", fps |-> 0], [op |-> "reencode", fps |-> 0]>>
    \o [k \in 1..Len(args.try_fps) |-> [op |-> "reencode", fps |-> args.try_fps[k]]]

\* C1: for a FIX file in live mode the invocations made so far are a prefix of
\* remux, faststart, re-encode(no hint), re-encode(f1), re-encode(f2), ...; every
\* invocation but the latest has failed; and process_one returns only after a
\* success or after the whole chain has been tried.
C1_FixChainOrder ==
    (po.verdict = "FIX" /\ ~args.dry_run) =>
        /\ Len(Calls) <= Len(ClaimedFixChain)
        /\ \A j \in 1..Len(Calls) :
              /\ Calls[j].op = ClaimedFixChain[j].op
              /\ Calls[j].fps = ClaimedFixChain[j].fps
              /\ j < Len(Calls) => ~Calls[j].ok
        /\ Returned =>
              /\ Len(Calls) >= 1
              /\ Calls[Len(Calls)].ok \/ Len(Calls) = Len(ClaimedFixChain)

\* C1 witness: remux, faststart and the hint-less re-encode failed and the
\* re-encode with the first candidate frame rate succeeded
C1_Witness ==
    /\ po.verdict = "FIX" /\ Returned
    /\ Len(Calls) = 4
    /\ Calls[4].ok /\ Calls[4].op = "reencode" /\ Calls[4].fps = args.try_fps[1]

\* the name the repaired file takes in place, by strategy
FinalNameOf(call) ==
    CASE call.op = "wrap" -> WrapFinal(po.path, ExtOut(args.prefer_mkv))
      [] call.op = "remux" -> RemuxFinal(po.path)
      [] call.op = "faststart" -> FaststartFinal(po.path)
      [] OTHER -> ReencFinal(po.path, ExtOut(args.prefer_mkv))

\* C2: after a successful in-place repair exactly one backup of the file exists,
\* the final name (the original's name, with the output extension where the
\* strategy changes it) holds the repaired content, and no temporary file written
\* by any attempt remains.
C2_InplaceLeavesNoTemp ==
    (Returned /\ args.inplace /\ Len(Calls) >= 1 /\ Calls[Len(Calls)].ok) =>
        LET final == FinalNameOf(Calls[Len(Calls)])
        IN /\ bak_path(po.path) \in DOMAIN fs
           /\ final \in DOMAIN fs /\ fs[final].good /\ fs[final].tag = Calls[Len(Calls)].op
           /\ \A q \in DOMAIN fs : IsTmpName(q) => Untouched(q)

\* C3: in in-place mode the original is renamed to its backup name only after a
\* strategy has succeeded, before the temporary result is renamed, once per
\* successful repair and never for a failed one.
C3_BackupRename ==
    /\ \A j \in 1..Len(log) :
          /\ log[j].op = "rename_bak" =>
                /\ \E m \in 1..(j - 1) : log[m].op \in StrategyOps /\ log[m].ok
                /\ \A m \in 1..(j - 1) : log[m].op # "rename_tmp"
          /\ log[j].op = "rename_tmp" =>
                \E m \in 1..(j - 1) : log[m].op = "rename_bak" /\ log[m].ok
    /\ CountOp("rename_bak") <= 1
    /\ pc = "rename_tmp" =>
          /\ po.path \notin DOMAIN fs
          /\ bak_path(po.path) \in DOMAIN fs
          /\ fs[bak_path(po.path)] = fs0[po.path]
    /\ (Returned /\ args.inplace /\ Len(Calls) >= 1) =>
          IF Calls[Len(Calls)].ok
          THEN CountOp("rename_bak") = 1 /\ CountOp("rename_tmp") = 1
          ELSE CountOp("rename_bak") = 0 /\ CountOp("rename_tmp") = 0

\* C3 witness: an in-place repair that went through both renames
C3_Witness ==
    /\ Returned /\ args.inplace
    /\ CountOp("rename_bak") = 1 /\ CountOp("rename_tmp") = 1
    /\ bak_path(po.path) \in DOMAIN fs /\ fs[bak_path(po.path)].tag = "original"

\* C4: when every strategy of the FIX chain has failed, process_one returns
\* "reencode_failed" with no output path and an error detail, and the original and
\* its backup name are as they were, in both modes.
C4_FixExhausted ==
    (Returned /\ po.verdict = "FIX" /\ ~args.dry_run /\ AllFailed(Calls)) =>
        /\ ret.action = <<"reencode_failed">>
        /\ ret.outpath = NoPath
        /\ ret.err # NoneStr
        /\ po.path \in DOMAIN fs
        /\ Untouched(po.path)
        /\ Untouched(bak_path(po.path))
        /\ FileOps = <<>>

\* C4 witness: an exhausted chain in in-place mode that left partial files behind
C4_Witness ==
    /\ Returned /\ po.verdict = "FIX" /\ args.inplace
    /\ ret.action = <<"reencode_failed">>
    /\ Len(Calls) = Len(ClaimedFixChain)
    /\ fs # fs0

\* C5: an invocation counts as successful iff it exited 0 and its destination
\* exists with a size above zero; after an unsuccessful one the chain moves on and
\* nothing is promoted or returned as output.
C5_SuccessCriterion ==
    last.op # "" =>
        /\ last.ok <=> (last.rc = 0 /\ last.dst \in DOMAIN fs /\ fs[last.dst].size > 0)
        /\ ~last.ok => (pc \in {"wrap", "faststart", "reenc"} /\ FileOps = <<>>)
        /\ last.ok => IF args.inplace
                      THEN pc \in {"unlink_bak", "rename_bak", "rename_tmp"}
                      ELSE Returned /\ ret.outpath = last.dst

\* C5 witness: exit status 0 with an empty destination, taken as a failure
C5_Witness ==
    /\ last.op # "" /\ last.rc = 0 /\ ~last.ok
    /\ last.dst \in DOMAIN fs /\ fs[last.dst].size = 0

\* the WRAP loop so far: candidates in list order, all but the latest failed
WrapInOrder ==
    /\ Len(Calls) <= Len(args.try_fps)
    /\ \A j \in 1..Len(Calls) :
          /\ Calls[j].op = "wrap"
          /\ Calls[j].fps = args.try_fps[j]
          /\ j < Len(Calls) => ~Calls[j].ok

\* C6 as claimed: ... and the action reported after the success of candidate f is
\* "wrap(f)".
C6_WrapActionAsClaimed ==
    (po.verdict = "WRAP" /\ ~args.dry_run) =>
        /\ WrapInOrder
        /\ (Returned /\ Len(Calls) >= 1 /\ Calls[Len(Calls)].ok) =>
              ret.action = <<"wrap(", FpsStr(Calls[Len(Calls)].fps), ")">>

\* C6 amended: for a WRAP file the muxer is invoked for the candidates in list
\* order and stops at the first success f; the action reported is "wrap(f)" in
\* side-by-side mode and "wrap(f) inplace" in in-place mode.
C6_WrapFirstSuccess ==
    (po.verdict = "WRAP" /\ ~args.dry_run) =>
        /\ WrapInOrder
        /\ Returned =>
              /\ Len(Calls) >= 1
              /\ Calls[Len(Calls)].ok \/ Len(Calls) = Len(args.try_fps)
              /\ Calls[Len(Calls)].ok =>
                    ret.action = <<"wrap(", FpsStr(Calls[Len(Calls)].fps), ")">>
                                 \o (IF args.inplace THEN <<" inplace">> ELSE <<>>)

\* C6 witness: candidates [25, 30], 25 fails and 30 succeeds
C6_Witness ==
    /\ po.verdict = "WRAP" /\ Returned
    /\ args.try_fps = <<25, 30>>
    /\ Len(Calls) = 2 /\ ~Calls[1].ok /\ Calls[2].ok
    /\ ret.action[2] = "30"

\* the final output names of the WRAP strategy for the current file
WrapOutputNames ==
    {with_name(po.path, <<"_wrapped", FpsStr(f)>>, ExtOut(args.prefer_mkv)) : f \in FpsValues}
    \cup {WrapFinal(po.path, ExtOut(args.prefer_mkv))}

\* C7: when the muxer has failed for every candidate, process_one returns
\* "wrap_failed" with no output path, no final output name holds a file left by a
\* failed attempt, and the raw original is unchanged.
C7_WrapFailedPromotesNothing ==
    (Returned /\ po.verdict = "WRAP" /\ ~args.dry_run /\ AllFailed(Calls)) =>
        /\ ret.action = <<"wrap_failed">>
        /\ ret.outpath = NoPath
        /\ \A q \in WrapOutputNames : Untouched(q)
        /\ Untouched(po.path)

\* C8: nothing is invoked, renamed or unlinked for a file unless its verdict is
\* WRAP or FIX and the run is live; for an OK file and in a dry run the directory
\* is as it was and the output path reported is empty.
C8_NoMutationUnlessLiveRepair ==
    /\ (log # <<>> \/ fs # fs0) => (~args.dry_run /\ po.verdict \in {"WRAP", "FIX"})
    /\ (Returned /\ (ret.verdict = "OK" \/ args.dry_run)) =>
          (ret.outpath = NoPath /\ fs = fs0 /\ log = <<>>)
    /\ \A r \in 1..Len(rows) :
          (rows[r].verdict = "OK" \/ args.dry_run) => rows[r].outpath = NoPath

\* C8 witness: process_one has returned "planned" for a FIX file of a dry run
C8_Witness ==
    /\ Returned /\ args.dry_run
    /\ ret.verdict = "FIX" /\ ret.action = <<"planned">>

\* C9: in side-by-side mode the file being repaired and its backup name are never
\* touched, no rename or unlink is made, and every output goes to a path other
\* than the file's own.
C9_SideBySideKeepsOriginal ==
    (~args.inplace /\ po.path # NoPath) =>
        /\ Untouched(po.path)
        /\ Untouched(bak_path(po.path))
        /\ FileOps = <<>>
        /\ last.op # "" => last.dst # po.path
        /\ Returned => ret.outpath # po.path

\* C9 witness: a side-by-side repair has produced its output next to the original
C9_Witness ==
    /\ ~args.inplace /\ Returned
    /\ Len(Calls) >= 2 /\ Calls[Len(Calls)].ok
    /\ ret.outpath \in DOMAIN fs /\ fs[ret.outpath].good
    /\ po.path \in DOMAIN fs

\* C10: verdict_for_file returns WRAP exactly for the paths whose lower-cased
\* extension is .h264, .hevc or .dav, whatever the probe and the packets say.
C10_WrapIffRawExtension ==
    vq.done => (vq.res.verdict = "WRAP" <=> lower(suffix(vq.path)) \in {".h264", ".hevc", ".dav"})

\* C10 witness: an upper-case raw extension with metadata and packets that would
\* have given OK
C10_Witness ==
    /\ vq.done /\ vq.res.verdict = "WRAP"
    /\ suffix(vq.path) = ".H264"
    /\ verdict_for_file(<<"a", ".mp4">>, vq.tol, vq.media.meta, vq.media.pts).verdict = "OK"

\* the inputs of the verdict query are a container file with a usable probed
\* duration and a usable packet timeline
VUsableBoth ==
    /\ lower(suffix(vq.path)) \notin {".h264", ".hevc", ".dav"}
    /\ vq.media.meta.dur.some /\ vq.media.meta.dur.v > 1000
    /\ vq.media.pts.first.some /\ vq.media.pts.last.some
    /\ vq.media.pts.last.v > vq.media.pts.first.v

\* C11: for a non-raw file with a usable duration (> 0.001 s) and a usable packet
\* timeline the verdict is FIX iff |pkt - meta| / max(meta, 1e-6) > tolerance or the
\* container name contains "mpeg" with codec h264/hevc, and OK otherwise.
C11_FixIffDivergentOrBadCombo ==
    (vq.done /\ VUsableBoth) =>
        LET meta == vq.media.meta.dur.v
            pkt == vq.media.pts.last.v - vq.media.pts.first.v
            diverges == Abs(pkt - meta) * 100 > vq.tol * meta
            bad == /\ vq.media.meta.container \in {"mpegts", "mpeg", "mpegvideo"}
                   /\ vq.media.meta.vcodec \in {"h264", "hevc"}
        IN /\ vq.res.verdict \in {"FIX", "OK"}
           /\ vq.res.verdict = "FIX" <=> (diverges \/ bad)

\* C11 witness: a divergence of exactly the tolerance, with no bad combination, is OK
C11_Witness ==
    /\ vq.done /\ VUsableBoth
    /\ Abs(vq.media.pts.last.v - vq.media.pts.first.v - vq.media.meta.dur.v) * 100
         = vq.tol * vq.media.meta.dur.v
    /\ vq.tol > 0
    /\ vq.res.verdict = "OK"

\* get_meta has returned for a document ffprobe printed with exit status 0
MetaResolved == pc = "vf_meta_done" /\ vq.p.rc = 0 /\ vq.p.out.kind = "doc"

\* the positive stream durations of the probed document
PositiveStreamDurs ==
    {vq.p.out.streams[k].duration.v : k \in
        {j \in DOMAIN vq.p.out.streams : /\ vq.p.out.streams[j].duration.kind = "num"
                                         /\ vq.p.out.streams[j].duration.v > 0}}

SetMax(S) == CHOOSE x \in S : \A y \in S : y <= x

C14_DurationIsMaxOfStreams ==
    MetaResolved =>
        vq.meta.dur = IF vq.p.out.format.duration.kind = "num"
                      THEN Some(vq.p.out.format.duration.v)
                      ELSE IF PositiveStreamDurs = {} THEN None
                      ELSE Some(SetMax(PositiveStreamDurs))

\* the numeric lines of the sampler's output, by position
NumericLines == {k \in DOMAIN vq.s.lines : vq.s.lines[k].kind = "num"}

\* C17: get_packet_first_last_pts returns the first and the last line that parse as
\* numbers, whatever their order; blank and non-numeric lines are skipped; both are
\* null when no line parses or the tool cannot be started.
C17_FirstAndLastParsed ==
    pc = "vf_classify" =>
        IF ~vq.s.started \/ NumericLines = {}
        THEN vq.pts = NullPts
        ELSE LET lo == CHOOSE k \in NumericLines : \A j \in NumericLines : k <= j
                 hi == CHOOSE k \in NumericLines : \A j \in NumericLines : j <= k
             IN /\ vq.pts.first = Some(vq.s.lines[lo].v)
                /\ vq.pts.last = Some(vq.s.lines[hi].v)

\* C17 witness: blank and non-numeric lines around numbers that go backwards, and the
\* last timestamp returned is smaller than the first
C17_Witness ==
    /\ pc = "vf_classify" /\ vq.s.started
    /\ \E k \in DOMAIN vq.s.lines : vq.s.lines[k].kind # "num"
    /\ vq.pts.first.some /\ vq.pts.last.some
    /\ vq.pts.last.v < vq.pts.first.v

FailedActions == {<<"wrap_failed">>, <<"reencode_failed">>}

\* what holds of the report at every point of a batch run
ReportSoFar ==
    /\ pc # "crashed"
    /\ args.entry = "main" =>
          /\ Len(rows) = i - 1
          /\ \A j \in 1..Len(rows) :
                /\ rows[j].path = targets[j]
                /\ rows[j].action \in FailedActions <=> rows[j].err # ""
          /\ pc \in {"audit", "po_entry"} => i <= Len(targets)
          /\ pc \in {"report", "exit0"} => Len(rows) = Len(targets)
          /\ (pc \in {"audit", "report", "exit0"} /\ po # NoPo) =>
                /\ rows[Len(rows)].path = po.path
                /\ Len(Calls) >= 1
                /\ rows[Len(rows)].action \in FailedActions <=> AllFailed(Calls)

\* C15: whatever repairs fail, a batch run goes through every target and ends with
\* exit status 0, its report holding one row per target in target order, a failed
\* file's row carrying its "*_failed" action and error detail.
C15_BatchCompletes ==
    /\ []ReportSoFar
    /\ (args.entry = "main") ~> (pc = "exit0")

\* C15 witness: the run has ended after the first of two targets failed its whole
\* chain and the second was repaired
C15_Witness ==
    /\ pc = "exit0"
    /\ Len(targets) = 2 /\ Len(rows) = 2
    /\ rows[1].action \in FailedActions /\ rows[1].err # ""
    /\ rows[2].action \notin FailedActions \cup {<<"none">>}

\* the original has been renamed to its backup name and the result not yet renamed
BetweenRenames == CountOp("rename_bak") = 1 /\ CountOp("rename_tmp") = 0

\* C16: the in-place replacement is not atomic: between the rename of the original
\* to ".bak" and the rename of the temporary result to the final name the backup
\* exists, the temporary result exists and no file exists at the original name.
C16_ReplacementNotAtomic ==
    BetweenRenames =>
        /\ pc = "rename_tmp"
        /\ bak_path(po.path) \in DOMAIN fs
        /\ po.tmp \in DOMAIN fs /\ po.tmp # po.path
        /\ po.path \notin DOMAIN fs

\* C16 witness: the state a crash between the two renames leaves behind
C16_Witness ==
    /\ BetweenRenames
    /\ bak_path(po.path) \in DOMAIN fs
    /\ po.tmp \in DOMAIN fs
    /\ po.path \notin DOMAIN fs
    /\ po.final \notin DOMAIN fs

\* C19: during a batch run, processing one target leaves every other target of the
\* batch, and every output reported for another target, as they were: no derived
\* output, temporary or backup path of one target is another target's path or output.
C19_TargetsDoNotInterfere ==
    (args.entry = "main" /\ po.path # NoPath) =>
        /\ \A j \in 1..Len(targets) : targets[j] # po.path => Untouched(targets[j])
        /\ \A j \in 1..Len(rows) :
              (rows[j].path # po.path /\ rows[j].outpath # NoPath) => Untouched(rows[j].outpath)

\* C20: in in-place mode the original content of the file being processed is, in
\* every state, at the original path or at original-name + ".bak"; the pre-existing
\* backup is removed and the original renamed only after a strategy has succeeded.
C20_OriginalAlwaysKept ==
    /\ (args.inplace /\ po.path # NoPath) =>
          /\ po.path \in DOMAIN fs0
          /\ \/ po.path \in DOMAIN fs /\ fs[po.path] = fs0[po.path]
             \/ bak_path(po.path) \in DOMAIN fs /\ fs[bak_path(po.path)] = fs0[po.path]
    /\ \A j \in 1..Len(log) :
          log[j].op \in {"unlink_bak", "rename_bak"} =>
              \E m \in 1..(j - 1) : log[m].op \in StrategyOps /\ log[m].ok

\* C20 witness: an earlier backup has been removed and the original now sits at the
\* backup name, after an earlier strategy failed and a later one succeeded
C20_Witness ==
    /\ args.inplace /\ po.path # NoPath
    /\ bak_path(po.path) \in DOMAIN fs0
    /\ bak_path(po.path) \in DOMAIN fs
    /\ fs[bak_path(po.path)] = fs0[po.path]
    /\ fs0[bak_path(po.path)] # fs0[po.path]
    /\ \E j \in 1..Len(Calls) : ~Calls[j].ok

\* the number of report rows with verdict v
RowsWith(v) == Cardinality({j \in 1..Len(rows) : rows[j].verdict = v})

\* the current target has been counted and its row is not yet written
RowPending == pc \notin {"audit", "report", "exit0"}

\* C18: the verdict main records in the row and in the counts is the verdict
\* process_one recomputes and acts on, so a file reported as WRAP or FIX in a live
\* run has had its repair chain attempted: its action is never "none".
C18_SameVerdictTwice ==
    args.entry = "main" =>
        /\ po.verdict # "" => po.verdict = audit.verdict
        /\ pc = "po_return" => (ret.verdict = audit.verdict /\ ret.action # <<"none">>)
        /\ \A j \in 1..Len(rows) :
              (rows[j].verdict \in {"WRAP", "FIX"} /\ ~args.dry_run) =>
                  rows[j].action \notin {<<"none">>, <<"planned">>}
        /\ \A v \in {"OK", "WRAP", "FIX"} :
              counts[v] = RowsWith(v) + (IF RowPending /\ audit.verdict = v THEN 1 ELSE 0)

\* C18 witness: under --tol 0 a file that the default tolerance would pass is
\* reported FIX and has been repaired
C18_Witness ==
    /\ args.entry = "main" /\ pc = "exit0"
    /\ args.tol # DEFAULT_TOL
    /\ rows[1].verdict = "FIX"
    /\ Diagnose(fs0, targets[1], DEFAULT_TOL).verdict = "OK"
    /\ rows[1].action \notin FailedActions \cup {<<"none">>}

====
